---------------------------- MODULE Spec2Model ----------------------------
(***************************************************************************)
(* Model of the lock-free statistics core of finch (package stats):        *)
(* Stats (histogram snapshot: Record, Reset, Copy, Combine) and Trx (two   *)
(* pre-allocated Stats and one atomic pointer: Record, Error, Swap).       *)
(*                                                                         *)
(* and the pure functions Stats.Percentiles and ParsePercentiles.          *)
(*                                                                         *)
(* The specifications share the variables:                                 *)
(*   Spec        one producer and one collector running concurrently,      *)
(*               every statement of Trx.Record / Trx.Error /               *)
(*               Stats.Record / Trx.Swap / Stats.Reset one step;           *)
(*   SpecSeq     the same Trx driven by whole calls, one after another,    *)
(*               with a collector-side aggregate built by Reset / Copy /   *)
(*               Combine;                                                  *)
(*   SpecRec     one Stats under whole Record and Reset calls;             *)
(*   SpecPct     one Percentiles call on a histogram and a request;        *)
(*   SpecBucket  the bucket index of one duration;                         *)
(*   SpecParse   one ParsePercentiles call on a text;                      *)
(*   SpecErr     the Trx under whole Error, Record and Swap calls, the     *)
(*               Error calls counted per code;                             *)
(*   SpecCall    one Stats under whole Record, Error-increment and Reset   *)
(*               calls;                                                    *)
(*   SpecAlias   the Stats as objects referring to storage, under whole    *)
(*               Record, Error, Swap, Copy and Combine calls.              *)
(***************************************************************************)
EXTENDS Integers, Sequences, FiniteSets, TLC

(***************************************************************************)
(* Program constants.                                                      *)
(***************************************************************************)
nEventTypes == 4

READ == 0

WRITE == 1

COMMIT == 2

TOTAL == 3

n_buckets == 450

base == 10

EventTypes == 0 .. (nEventTypes - 1)

(***************************************************************************)
(* Bounds of the model.                                                    *)
(***************************************************************************)
\* whole calls in a run of SpecSeq
MaxOps == 5

\* Trx.Record / Trx.Error calls the producer starts in a run of Spec
MaxCalls == 1

\* Trx.Swap calls the collector starts in a run of Spec
MaxSwaps == 2

\* durations (microseconds) a caller records
Durations == {5, 20, 100}

\* MySQL error codes a caller reports
Codes == {1062, 1213}

(***************************************************************************)
(* Bucket index of Stats.Record.  The code computes                        *)
(*     bucket := math.Log(float64(d)/base) / logFactor                     *)
(*     n := uint(bucket) + 1;  n = 0 if bucket < 0;  n = 449 if n > 449    *)
(* in float64.  BucketLow[i] is the smallest integer d for which that      *)
(* computation gives n >= i (tabulated from the float64 expression with    *)
(* base = 10.0 and logFactor = 0.046051701859881, for every i whose        *)
(* threshold fits 31 bits).  Because logFactor is ln(factor) rounded up,   *)
(* the exact powers of ten fall one bucket lower than 10*factor^(i-1)      *)
(* suggests: 100 -> 50, 1000 -> 100.                                       *)
(***************************************************************************)
BucketLow ==
    << 
       10, 11, 11, 12, 13, 13, 14, 14, 15, 16,
       16, 17, 18, 19, 20, 20, 21, 22, 23, 24,
       26, 27, 28, 29, 31, 32, 34, 35, 37, 39,
       40, 42, 44, 46, 48, 51, 53, 55, 58, 61,
       64, 67, 70, 73, 76, 80, 84, 88, 92, 96,
       101, 105, 110, 115, 121, 126, 132, 139, 145, 152,
       159, 166, 174, 182, 191, 200, 209, 219, 230, 240,
       252, 264, 276, 289, 302, 317, 332, 347, 364, 381,
       399, 417, 437, 458, 479, 502, 525, 550, 576, 603,
       631, 661, 692, 725, 759, 795, 832, 871, 913, 955,
       1001, 1048, 1097, 1149, 1203, 1259, 1319, 1381, 1446, 1514,
       1585, 1660, 1738, 1820, 1906, 1996, 2090, 2188, 2291, 2399,
       2512, 2631, 2755, 2885, 3020, 3163, 3312, 3468, 3631, 3802,
       3982, 4169, 4366, 4571, 4787, 5012, 5249, 5496, 5755, 6026,
       6310, 6607, 6919, 7245, 7586, 7944, 8318, 8710, 9121, 9550,
       10001, 10472, 10965, 11482, 12023, 12590, 13183, 13804, 14455, 15136,
       15849, 16596, 17379, 18198, 19055, 19953, 20893, 21878, 22909, 23989,
       25119, 26303, 27543, 28841, 30200, 31623, 33114, 34674, 36308, 38019,
       39811, 41687, 43652, 45709, 47864, 50119, 52481, 54955, 57544, 60256,
       63096, 66070, 69184, 72444, 75858, 79433, 83177, 87097, 91202, 95500,
       100001, 104713, 109648, 114816, 120227, 125893, 131826, 138039, 144544, 151357,
       158490, 165959, 173781, 181971, 190547, 199527, 208930, 218777, 229087, 239884,
       251189, 263027, 275423, 288404, 301996, 316228, 331132, 346737, 363079, 380190,
       398108, 416870, 436516, 457089, 478631, 501188, 524808, 549541, 575440, 602560,
       630958, 660694, 691831, 724436, 758578, 794329, 831764, 870964, 912011, 954993,
       1000001, 1047129, 1096479, 1148154, 1202265, 1258926, 1318257, 1380385, 1445440, 1513562,
       1584894, 1659587, 1737801, 1819701, 1905461, 1995263, 2089297, 2187762, 2290868, 2398833,
       2511887, 2630268, 2754229, 2884032, 3019952, 3162278, 3311312, 3467369, 3630781, 3801894,
       3981072, 4168694, 4365159, 4570882, 4786301, 5011873, 5248075, 5495409, 5754400, 6025596,
       6309574, 6606935, 6918310, 7244360, 7585776, 7943283, 8317638, 8709636, 9120109, 9549926,
       10000001, 10471286, 10964782, 11481537, 12022645, 12589255, 13182568, 13803843, 14454398, 15135613,
       15848932, 16595870, 17378009, 18197009, 19054608, 19952624, 20892962, 21877617, 22908677, 23988330,
       25118865, 26302680, 27542288, 28840316, 30199518, 31622777, 33113113, 34673686, 36307806, 38018940,
       39810718, 41686939, 43651584, 45708819, 47863010, 50118724, 52480747, 54954088, 57543994, 60255959,
       63095735, 66069345, 69183098, 72443597, 75857758, 79432824, 83176378, 87096359, 91201084, 95499259,
       100000001, 104712855, 109647820, 114815363, 120226444, 125892542, 131825674, 138038427, 144543978, 151356125,
       158489320, 165958691, 173780083, 181970086, 190546072, 199526232, 208929614, 218776163, 229086766, 239883292,
       251188644, 263026800, 275422871, 288403151, 301995173, 316227767, 331131122, 346736851, 363078055, 380189397,
       398107171, 416869384, 436515833, 457088190, 478630093, 501187234, 524807461, 549540874, 575439938, 602559587,
       630957345, 660693449, 691830971, 724435961, 758577576, 794328235, 831763772, 870963590, 912010840, 954992587,
       1000000001, 1047128549, 1096478197, 1148153622, 1202264435, 1258925412, 1318256739, 1380384265, 1445439771, 1513561249,
       1584893193, 1659586908, 1737800829, 1819700859, 1905460718, 1995262315, 2089296131
    >>

\* lines 61-68: d <= 0 gives log = -Inf (d = 0), n = 0
BucketOf(d) ==
    IF d < base THEN 0
    ELSE LET hit == {i \in 1 .. Len(BucketLow) : BucketLow[i] <= d}
             n   == CHOOSE i \in hit : \A j \in hit : j <= i
         IN  IF n > n_buckets - 1 THEN n_buckets - 1 ELSE n

\* the durations with 0 added, for the runs of a single Stats
RecDurations == Durations \cup {0}

\* BucketOf on the durations of the model, evaluated once
BucketTab == [d \in RecDurations |-> BucketOf(d)]

\* the buckets some duration of the model falls in; every other bucket of
\* the 450 holds 0 in every reachable state and is left out of the state
BucketIdx == {BucketTab[d] : d \in RecDurations}

(***************************************************************************)
(* Stats.  Buckets and N are uint64 and Min and Max int64 in the code; the *)
(* bounds of the model keep every counter far below the point of wrapping. *)
(***************************************************************************)
NewStats ==
    [Buckets |-> [e \in EventTypes |-> [i \in BucketIdx |-> 0]],
     Min     |-> [e \in EventTypes |-> 0],
     Max     |-> [e \in EventTypes |-> 0],
     N       |-> [e \in EventTypes |-> 0],
     Errors  |-> [k \in {} |-> 0]]

\* s.Errors[k] read as Go reads a map: a missing key gives 0
Tally(s, k) == IF k \in DOMAIN s.Errors THEN s.Errors[k] ELSE 0

\* s.Buckets[t][n] += 1: the store of the value read, plus one
WriteBucket(s, t, n, read) == [s EXCEPT !.Buckets[t][n] = read + 1]

\* s.Buckets[t][n] += 1, undisturbed
IncBucket(s, t, n) == WriteBucket(s, t, n, s.Buckets[t][n])

\* mutant: the first event of a type is not taken as its minimum
SetMinNoFirst(s, t, d) == IF d < s.Min[t] THEN [s EXCEPT !.Min[t] = d] ELSE s

\* if d < s.Min[t] || s.N[t] == 0 { s.Min[t] = d }
SetMin(s, t, d) ==
    IF d < s.Min[t] \/ s.N[t] = 0 THEN [s EXCEPT !.Min[t] = d] ELSE s

\* if d > s.Max[t] { s.Max[t] = d }
SetMax(s, t, d) == IF d > s.Max[t] THEN [s EXCEPT !.Max[t] = d] ELSE s

\* s.N[t]++: the store of the value read, plus one
WriteN(s, t, read) == [s EXCEPT !.N[t] = read + 1]

\* s.N[t]++, undisturbed
IncN(s, t) == WriteN(s, t, s.N[t])

\* the four statements Stats.Record runs for one event type
RecordType(s, t, n, d) == IncN(SetMax(SetMin(IncBucket(s, t, n), t, d), t, d), t)

\* mutant: the event is not mirrored into TOTAL
StatsRecordNoMirror(s, eventType, d) == RecordType(s, eventType, BucketTab[d], d)

\* mutant: the event is mirrored into TOTAL also when it is a TOTAL event
StatsRecordTwice(s, eventType, d) ==
    RecordType(RecordType(s, eventType, BucketTab[d], d), TOTAL, BucketTab[d], d)

StatsRecord(s, eventType, d) ==
    LET n  == BucketTab[d]
        s1 == RecordType(s, eventType, n, d)
    IN  IF eventType # TOTAL THEN RecordType(s1, TOTAL, n, d) ELSE s1

\* mutant: the round leaves N as it is
ResetTypeKeepN(s, i) ==
    [s EXCEPT !.Buckets[i] = [j \in BucketIdx |-> 0], !.Min[i] = 0, !.Max[i] = 0]

\* one round of Reset's loop over the event types
ResetType(s, i) ==
    [s EXCEPT !.Buckets[i] = [j \in BucketIdx |-> 0],
              !.Min[i] = 0, !.Max[i] = 0, !.N[i] = 0]

\* mutant: Reset leaves the error tallies as they are
ResetErrorsSkip(s) == s

\* Reset's loop over the error codes: every key stays, with 0
ResetErrors(s) == [s EXCEPT !.Errors = [k \in DOMAIN s.Errors |-> 0]]

RECURSIVE ResetFrom(_, _)
ResetFrom(s, i) ==
    IF i >= nEventTypes THEN s ELSE ResetFrom(ResetType(s, i), i + 1)

\* mutant: Reset leaves the Stats as it is
StatsResetNone(s) == s

StatsReset(s) == ResetErrors(ResetFrom(s, 0))

StatsCopy(s, c) ==
    [Buckets |-> [i \in EventTypes |-> c.Buckets[i]],
     Min     |-> [i \in EventTypes |-> c.Min[i]],
     Max     |-> [i \in EventTypes |-> c.Max[i]],
     N       |-> [i \in EventTypes |-> c.N[i]],
     Errors  |-> [k \in DOMAIN s.Errors \cup DOMAIN c.Errors |->
                     IF k \in DOMAIN c.Errors THEN c.Errors[k] ELSE s.Errors[k]]]

\* mutant: Combine adds the buckets only
StatsCombineBuckets(s, c) ==
    [s EXCEPT !.Buckets = [i \in EventTypes |->
                 [j \in BucketIdx |-> s.Buckets[i][j] + c.Buckets[i][j]]]]

StatsCombine(s, c) ==
    [Buckets |-> [i \in EventTypes |->
                    [j \in BucketIdx |-> s.Buckets[i][j] + c.Buckets[i][j]]],
     Min     |-> [i \in EventTypes |->
                    IF c.Min[i] < s.Min[i] \/ s.N[i] = 0 THEN c.Min[i] ELSE s.Min[i]],
     Max     |-> [i \in EventTypes |->
                    IF c.Max[i] > s.Max[i] THEN c.Max[i] ELSE s.Max[i]],
     N       |-> [i \in EventTypes |-> s.N[i] + c.N[i]],
     Errors  |-> [k \in DOMAIN s.Errors \cup DOMAIN c.Errors |->
                     IF k \in DOMAIN c.Errors THEN Tally(s, k) + c.Errors[k]
                     ELSE s.Errors[k]]]

\* mutant: Error sets the tally of n to 1
ErrorIncSet(s, n) ==
    [s EXCEPT !.Errors = [k \in DOMAIN s.Errors \cup {n} |->
                             IF k = n THEN 1 ELSE s.Errors[k]]]

\* t.sp.Load().Errors[n] += 1, on the loaded Stats
ErrorInc(s, n) ==
    [s EXCEPT !.Errors = [k \in DOMAIN s.Errors \cup {n} |->
                             IF k = n THEN Tally(s, n) + 1 ELSE s.Errors[k]]]


(***************************************************************************)
(* Trx                                                                     *)
(***************************************************************************)
VARIABLES
    slot,   \* the two Stats of the Trx: slot["a"], slot["b"]
    sp,     \* the atomic pointer: the name of the Stats it refers to
    onA,    \* the collector's bookkeeping
    agg,    \* a Stats of the collector (its aggregate)
    prod,   \* the producer thread: its position and locals
    coll,   \* the collector thread: its position and locals
    seq,    \* history of a run of whole calls (not program state)
    con,    \* history of a concurrent run (not program state)
    fn      \* one call of a function of the package: its input and result

trx == <<slot, sp, onA>>

threads == <<prod, coll, con>>

vars == <<slot, sp, onA, agg, prod, coll, seq, con, fn>>

Slots == {"a", "b"}

\* mutant: Swap always resets and stores b
SwapIdleStuck(on) == "b"

\* Swap: the Stats it resets and stores in sp
SwapIdle(on) == IF on THEN "b" ELSE "a"

\* mutant: Swap returns the Stats it has just made active
SwapReturnActive(on) == IF on THEN "b" ELSE "a"

\* Swap: the Stats it returns
SwapReturn(on) == IF on THEN "a" ELSE "b"

NoOp == [op |-> "none", src |-> "-"]

\* no function call made
NoCall == [op |-> "none"]

\* NewTrx, and both threads before their first call
Trx0 ==
    /\ slot = [x \in Slots |-> NewStats]
    /\ sp = "a"
    /\ onA = TRUE
    /\ agg = NewStats
    /\ prod = [pc |-> "idle", ptr |-> "-", e |-> 0, d |-> 0, code |-> 0,
               t |-> 0, n |-> 0, read |-> 0, began |-> 0]
    /\ coll = [pc |-> "idle", i |-> 0, idle |-> "-", ret |-> "-"]
    /\ seq = [nops |-> 0, last |-> NoOp, prev |-> NoOp, pre |-> NewStats,
              ret |-> "-", prevRet |-> "-", since |-> 0, atSwap |-> 0,
              recTotal |-> 0, retSum |-> 0, directTotal |-> FALSE]
    /\ con = [started |-> 0, completed |-> 0, swaps |-> 0, returns |-> 0,
              final |-> FALSE, drained |-> FALSE,
              sumRead |-> 0, returned |-> "-", window |-> << >>,
              owed |-> << >>]

Init == Trx0 /\ fn = NoCall

\* the history after one more whole call
Logged(op, src) ==
    [seq EXCEPT !.nops = @ + 1, !.prev = seq.last,
                !.last = [op |-> op, src |-> src], !.pre = agg]

(***************************************************************************)
(* Spec: the producer and the collector of one Trx, statement by           *)
(* statement.  Only sp is atomic; the fields of a Stats are plain memory,  *)
(* so an increment is a read and a later store.                            *)
(***************************************************************************)
\* the event types a caller records (TOTAL is kept by Record itself)
CallerTypes == {READ, WRITE, COMMIT}

\* the collector is between a Swap's call and its return
InSwap == coll.pc \in {"reset", "reseterr", "store", "flip"}

\* the producer calls t.Record(eventType, d)
PCallRecord(eventType, d) ==
    /\ prod.pc = "idle"
    /\ con.started < MaxCalls
    /\ prod' = [prod EXCEPT !.pc = "load", !.e = eventType, !.d = d,
                            !.began = IF InSwap THEN -1 ELSE con.returns]
    /\ con' = [con EXCEPT !.started = @ + 1]
    /\ UNCHANGED <<trx, agg, coll, seq, fn>>

\* mutant: Record starts on the Stats that sp does not refer to
PLoadOther ==
    /\ prod.pc = "load"
    /\ prod' = [prod EXCEPT !.pc = "rdb", !.ptr = SwapIdle(sp = "a"),
                            !.t = prod.e, !.n = BucketTab[prod.d]]
    /\ UNCHANGED <<trx, agg, coll, seq, con, fn>>

\* t.sp.Load(), then Stats.Record starts on the loaded Stats (lines 61-68)
PLoad ==
    /\ prod.pc = "load"
    /\ prod' = [prod EXCEPT !.pc = "rdb", !.ptr = sp, !.t = prod.e,
                            !.n = BucketTab[prod.d]]
    /\ UNCHANGED <<trx, agg, coll, seq, con, fn>>

\* s.Buckets[t][n] += 1: the read
PReadBucket ==
    /\ prod.pc = "rdb"
    /\ prod' = [prod EXCEPT !.pc = "wrb",
                            !.read = slot[prod.ptr].Buckets[prod.t][prod.n]]
    /\ UNCHANGED <<trx, agg, coll, seq, con, fn>>

\* s.Buckets[t][n] += 1: the store
PWriteBucket ==
    /\ prod.pc = "wrb"
    /\ slot' = [slot EXCEPT ![prod.ptr] = WriteBucket(@, prod.t, prod.n, prod.read)]
    /\ prod' = [prod EXCEPT !.pc = "min"]
    /\ UNCHANGED <<sp, onA, agg, coll, seq, con, fn>>

PMin ==
    /\ prod.pc = "min"
    /\ slot' = [slot EXCEPT ![prod.ptr] = SetMin(@, prod.t, prod.d)]
    /\ prod' = [prod EXCEPT !.pc = "max"]
    /\ UNCHANGED <<sp, onA, agg, coll, seq, con, fn>>

PMax ==
    /\ prod.pc = "max"
    /\ slot' = [slot EXCEPT ![prod.ptr] = SetMax(@, prod.t, prod.d)]
    /\ prod' = [prod EXCEPT !.pc = "rdn"]
    /\ UNCHANGED <<sp, onA, agg, coll, seq, con, fn>>

\* s.N[t]++: the read
PReadN ==
    /\ prod.pc = "rdn"
    /\ prod' = [prod EXCEPT !.pc = "wrn", !.read = slot[prod.ptr].N[prod.t]]
    /\ UNCHANGED <<trx, agg, coll, seq, con, fn>>

\* s.N[t]++: the store; then the same statements for TOTAL, or the return
PWriteN ==
    /\ prod.pc = "wrn"
    /\ slot' = [slot EXCEPT ![prod.ptr] = WriteN(@, prod.t, prod.read)]
    /\ IF prod.t # TOTAL
       THEN /\ prod' = [prod EXCEPT !.pc = "rdb", !.t = TOTAL]
            /\ con' = con
       ELSE /\ prod' = [prod EXCEPT !.pc = "idle"]
            /\ con' = [con EXCEPT
                         !.completed = @ + 1,
                         !.window = IF InSwap THEN @
                                    ELSE Append(@, [e |-> prod.e, d |-> prod.d,
                                                    fresh |-> prod.began = con.returns])]
    /\ UNCHANGED <<sp, onA, agg, coll, seq, fn>>

\* the producer calls t.Error(n)
PCallError(n) ==
    /\ prod.pc = "idle"
    /\ con.started < MaxCalls
    /\ prod' = [prod EXCEPT !.pc = "loaderr", !.code = n,
                            !.began = IF InSwap THEN -1 ELSE con.returns]
    /\ con' = [con EXCEPT !.started = @ + 1]
    /\ UNCHANGED <<trx, agg, coll, seq, fn>>

\* t.sp.Load()
PLoadErr ==
    /\ prod.pc = "loaderr"
    /\ prod' = [prod EXCEPT !.pc = "err", !.ptr = sp]
    /\ UNCHANGED <<trx, agg, coll, seq, con, fn>>

\* .Errors[n] += 1
PErr ==
    /\ prod.pc = "err"
    /\ slot' = [slot EXCEPT ![prod.ptr] = ErrorInc(@, prod.code)]
    /\ prod' = [prod EXCEPT !.pc = "idle"]
    /\ UNCHANGED <<sp, onA, agg, coll, seq, con, fn>>

\* the workload ends: the producer makes no further call
PStop ==
    /\ prod.pc = "idle"
    /\ prod' = [prod EXCEPT !.pc = "stopped"]
    /\ UNCHANGED <<trx, agg, coll, seq, con, fn>>

\* the collector calls t.Swap(): if t.onA
CSwapBegin ==
    /\ coll.pc = "idle"
    /\ con.swaps < MaxSwaps
    /\ coll' = [pc |-> "reset", i |-> 0, idle |-> SwapIdle(onA), ret |-> "-"]
    /\ con' = [con EXCEPT !.swaps = @ + 1, !.owed = con.window,
                          !.final = prod.pc = "stopped"]
    /\ UNCHANGED <<trx, agg, prod, seq, fn>>

\* one round of the loop of t.b.Reset() / t.a.Reset()
CResetType ==
    /\ coll.pc = "reset"
    /\ slot' = [slot EXCEPT ![coll.idle] = ResetType(@, coll.i)]
    /\ coll' = [coll EXCEPT !.i = @ + 1,
                            !.pc = IF coll.i + 1 >= nEventTypes
                                   THEN "reseterr" ELSE "reset"]
    /\ UNCHANGED <<sp, onA, agg, prod, seq, con, fn>>

CResetErrors ==
    /\ coll.pc = "reseterr"
    /\ slot' = [slot EXCEPT ![coll.idle] = ResetErrors(@)]
    /\ coll' = [coll EXCEPT !.pc = "store"]
    /\ UNCHANGED <<sp, onA, agg, prod, seq, con, fn>>

\* mutant: Swap publishes the idle slot only once the producer is between calls
CStoreQuiesce ==
    /\ coll.pc = "store"
    /\ prod.pc \in {"idle", "stopped"}
    /\ sp' = coll.idle
    /\ coll' = [coll EXCEPT !.pc = "flip"]
    /\ con' = [con EXCEPT !.returned = IF @ = coll.idle THEN "-" ELSE @]
    /\ UNCHANGED <<slot, onA, agg, prod, seq, fn>>

\* t.sp.Store(t.b) / t.sp.Store(t.a)
CStore ==
    /\ coll.pc = "store"
    /\ sp' = coll.idle
    /\ coll' = [coll EXCEPT !.pc = "flip"]
    /\ con' = [con EXCEPT !.returned = IF @ = coll.idle THEN "-" ELSE @]
    /\ UNCHANGED <<slot, onA, agg, prod, seq, fn>>

\* t.onA = false; return t.a  /  t.onA = true; return t.b
CFlipReturn ==
    /\ coll.pc = "flip"
    /\ onA' = ~onA
    /\ coll' = [coll EXCEPT !.pc = "read", !.ret = SwapReturn(onA)]
    /\ con' = [con EXCEPT !.returns = @ + 1, !.returned = SwapReturn(onA),
                          !.window = << >>]
    /\ UNCHANGED <<slot, sp, agg, prod, seq, fn>>

\* the collector reads N[TOTAL] of the snapshot it was handed
CRead ==
    /\ coll.pc = "read"
    /\ coll' = [coll EXCEPT !.pc = "idle"]
    /\ con' = [con EXCEPT !.sumRead = @ + slot[coll.ret].N[TOTAL],
                          !.drained = @ \/ con.final]
    /\ UNCHANGED <<trx, agg, prod, seq, fn>>

Producer ==
    \/ \E e \in CallerTypes, d \in Durations : PCallRecord(e, d)
    \/ PLoad
    \/ PReadBucket
    \/ PWriteBucket
    \/ PMin
    \/ PMax
    \/ PReadN
    \/ PWriteN
    \/ \E n \in Codes : PCallError(n)
    \/ PLoadErr
    \/ PErr
    \/ PStop

Collector ==
    \/ CSwapBegin
    \/ CResetType
    \/ CResetErrors
    \/ CStore
    \/ CFlipReturn
    \/ CRead

Next == Producer \/ Collector

Spec == Init /\ [][Next]_vars

(***************************************************************************)
(* SpecSeq: whole calls, one at a time.                                    *)
(***************************************************************************)
\* t.Record(eventType, d)
SeqRecord(eventType, d) ==
    /\ seq.nops < MaxOps
    /\ slot' = [slot EXCEPT ![sp] = StatsRecord(@, eventType, d)]
    /\ seq' = [Logged("Record", sp) EXCEPT
                 !.since = @ + 1, !.recTotal = @ + 1,
                 !.directTotal = @ \/ eventType = TOTAL]
    /\ UNCHANGED <<sp, onA, agg, threads, fn>>

\* t.Error(n)
SeqError(n) ==
    /\ seq.nops < MaxOps
    /\ slot' = [slot EXCEPT ![sp] = ErrorInc(@, n)]
    /\ seq' = Logged("Error", sp)
    /\ UNCHANGED <<sp, onA, agg, threads, fn>>

\* t.Swap()
SeqSwap ==
    /\ seq.nops < MaxOps
    /\ slot' = [slot EXCEPT ![SwapIdle(onA)] = StatsReset(@)]
    /\ sp' = SwapIdle(onA)
    /\ onA' = ~onA
    /\ seq' = [Logged("Swap", SwapReturn(onA)) EXCEPT
                 !.ret = SwapReturn(onA), !.prevRet = seq.ret,
                 !.atSwap = seq.since, !.since = 0,
                 !.retSum = @ + slot[SwapReturn(onA)].N[TOTAL]]
    /\ UNCHANGED <<agg, threads, fn>>

\* agg.Reset()
AggReset ==
    /\ seq.nops < MaxOps
    /\ agg' = StatsReset(agg)
    /\ seq' = Logged("Reset", "-")
    /\ UNCHANGED <<trx, threads, fn>>

\* agg.Copy(c), c one of the Stats of the Trx
AggCopy(c) ==
    /\ seq.nops < MaxOps
    /\ agg' = StatsCopy(agg, slot[c])
    /\ seq' = Logged("Copy", c)
    /\ UNCHANGED <<trx, threads, fn>>

\* agg.Combine(c), c one of the Stats of the Trx
AggCombine(c) ==
    /\ seq.nops < MaxOps
    /\ agg' = StatsCombine(agg, slot[c])
    /\ seq' = Logged("Combine", c)
    /\ UNCHANGED <<trx, threads, fn>>

NextSeq ==
    \/ \E e \in EventTypes, d \in Durations : SeqRecord(e, d)
    \/ \E n \in Codes : SeqError(n)
    \/ SeqSwap
    \/ AggReset
    \/ \E c \in Slots : AggCopy(c)
    \/ \E c \in Slots : AggCombine(c)

SpecSeq == Init /\ [][NextSeq]_vars

(***************************************************************************)
(* SpecRec: one Stats (agg) under Record and Reset, with the durations     *)
(* recorded for each event type since the last Reset kept in fn.seen.      *)
(***************************************************************************)
InitRec ==
    /\ Trx0
    /\ fn = [op |-> "rec", n |-> 0, resets |-> 0,
             seen |-> [e \in EventTypes |-> {}]]

\* agg.Record(eventType, d)
RecRecord(eventType, d) ==
    /\ fn.n < MaxOps
    /\ agg' = StatsRecord(agg, eventType, d)
    /\ fn' = [fn EXCEPT !.n = @ + 1,
                        !.seen = [t \in EventTypes |->
                                    IF t = eventType \/ t = TOTAL
                                    THEN fn.seen[t] \cup {d} ELSE fn.seen[t]]]
    /\ UNCHANGED <<trx, threads, seq>>

\* agg.Reset()
RecReset ==
    /\ fn.n < MaxOps
    /\ agg' = StatsReset(agg)
    /\ fn' = [fn EXCEPT !.n = @ + 1, !.resets = @ + 1,
                        !.seen = [t \in EventTypes |-> {}]]
    /\ UNCHANGED <<trx, threads, seq>>

NextRec ==
    \/ \E e \in EventTypes, d \in RecDurations : RecRecord(e, d)
    \/ RecReset

SpecRec == InitRec /\ [][NextRec]_vars

(***************************************************************************)
(* Properties.                                                             *)
(***************************************************************************)
RECURSIVE SumOver(_, _)
SumOver(f, S) ==
    IF S = {} THEN 0
    ELSE LET x == CHOOSE y \in S : TRUE IN f[x] + SumOver(f, S \ {x})

\* the sum of the bucket counters of event type e
SumBuckets(s, e) == SumOver(s.Buckets[e], BucketIdx)

\* N[TOTAL] is the sum of the other types' N, and so is every TOTAL bucket
TotalIsSum(s) ==
    /\ s.N[TOTAL] = s.N[READ] + s.N[WRITE] + s.N[COMMIT]
    /\ \A i \in BucketIdx :
         s.Buckets[TOTAL][i] =
           s.Buckets[READ][i] + s.Buckets[WRITE][i] + s.Buckets[COMMIT][i]

\* no half-applied Record is visible in s
Untorn(s) ==
    /\ \A e \in EventTypes : SumBuckets(s, e) = s.N[e]
    /\ s.N[TOTAL] = s.N[READ] + s.N[WRITE] + s.N[COMMIT]

\* every counter of s is zero
ZeroCounts(s) ==
    \A e \in EventTypes :
       s.N[e] = 0 /\ \A i \in BucketIdx : s.Buckets[e][i] = 0

\* s is as NewStats or Reset leave it
IsEmpty(s) ==
    /\ ZeroCounts(s)
    /\ \A e \in EventTypes : s.Min[e] = 0 /\ s.Max[e] = 0
    /\ \A k \in Codes : Tally(s, k) = 0

\* x and y agree in every bucket, Min, Max, N and in every code's tally
SameStats(x, y) ==
    /\ x.Buckets = y.Buckets
    /\ x.Min = y.Min
    /\ x.Max = y.Max
    /\ x.N = y.N
    /\ \A k \in Codes : Tally(x, k) = Tally(y, k)

\* the three Stats of a run of whole calls
Snapshots == {slot["a"], slot["b"], agg}

\* the Record calls of w with event type e (or any, for TOTAL)
OfType(w, e) == {k \in 1 .. Len(w) : e = TOTAL \/ w[k].e = e}

\* every Record call of w is counted in s: bucket, N, Min, Max, for its type
\* and for TOTAL
CountedIn(w, s) ==
    \A e \in EventTypes :
       /\ Cardinality(OfType(w, e)) <= s.N[e]
       /\ \A i \in BucketIdx :
            Cardinality({k \in OfType(w, e) : BucketTab[w[k].d] = i})
              <= s.Buckets[e][i]
       /\ \A k \in OfType(w, e) : s.Min[e] <= w[k].d /\ w[k].d <= s.Max[e]

(* C1: once the producer has stopped and the collector has done a final    *)
(* Swap and read, the N[TOTAL] values the collector read add up to the     *)
(* number of completed Record calls.                                       *)
C1_NoRecordLost == con.drained => con.sumRead = con.completed

(* C2: from the return of a Swap until a later Swap stores the returned    *)
(* slot in sp again, no step of the producer changes that slot.            *)
C2_ReturnedSlotFrozen ==
    [][(con.returned # "-" /\ prod' # prod)
          => slot'[con.returned] = slot[con.returned]]_vars

(* C3: whenever the collector holds a returned snapshot (from the return   *)
(* of Swap to its next Swap call), that snapshot is not torn: each type's  *)
(* buckets add up to its N and N[TOTAL] = N[READ] + N[WRITE] + N[COMMIT].  *)
C3_SnapshotNotTorn ==
    (coll.ret # "-" /\ coll.pc \in {"read", "idle"}) => Untorn(slot[coll.ret])

(* C4: in a run of whole calls, the snapshot a Swap returns has N[TOTAL]   *)
(* equal to the number of Record calls since the previous Swap, the newly  *)
(* active slot has every N and every bucket zero, the returned slot is not *)
(* the one the previous Swap returned, and the returned N[TOTAL] add up to *)
(* the number of Record calls.                                             *)
C4_SwapHandoff ==
    seq.last.op = "Swap" =>
       /\ slot[seq.ret].N[TOTAL] = seq.atSwap
       /\ ZeroCounts(slot[sp])
       /\ sp # seq.ret
       /\ seq.ret # seq.prevRet
       /\ seq.retSum = seq.recTotal

C4_Witness ==
    /\ seq.last.op = "Swap"
    /\ seq.prevRet # "-"
    /\ seq.atSwap >= 1
    /\ seq.retSum > seq.atSwap

(* C5: every Record call that completed after the previous Swap returned   *)
(* and before this Swap was called is counted in the snapshot this Swap    *)
(* returns: bucket, N, Min and Max of its event type and of TOTAL.         *)
C5_PrecedingRecordsCounted ==
    coll.pc = "read" => CountedIn(con.owed, slot[coll.ret])

\* C5 restricted to the calls that also began after the previous Swap
\* returned (no Swap ran while the call did): these are always counted
InsideWindow(w) == SelectSeq(w, LAMBDA r : r.fresh)

RecordsInsideWindowCounted ==
    coll.pc = "read" => CountedIn(InsideWindow(con.owed), slot[coll.ret])

(* C6: agg.Combine(c) with c empty leaves agg as it was.                   *)
C6_CombineEmptyUnchanged ==
    (seq.last.op = "Combine" /\ IsEmpty(slot[seq.last.src]))
       => SameStats(agg, seq.pre)

(* C7: agg.Reset() followed by agg.Combine(X) leaves agg equal to X in     *)
(* every bucket, Min, Max, N and in every error code's tally.              *)
C7_ResetThenCombine ==
    (seq.last.op = "Combine" /\ seq.prev.op = "Reset")
       => SameStats(agg, slot[seq.last.src])

C7_Witness ==
    /\ seq.last.op = "Combine"
    /\ seq.prev.op = "Reset"
    /\ DOMAIN seq.pre.Errors # {}
    /\ slot[seq.last.src].N[TOTAL] > 0
    /\ \E k \in Codes : Tally(slot[seq.last.src], k) > 0

(* C8: after agg.Copy(c), with no Reset before it, agg equals c in every   *)
(* bucket, Min, Max, N and in every error code's tally.                    *)
C8_CopyOverwritesAll ==
    seq.last.op = "Copy" => SameStats(agg, slot[seq.last.src])

(* C9: as long as every Record call had event type READ, WRITE or COMMIT,  *)
(* every snapshot has N[TOTAL] = N[READ] + N[WRITE] + N[COMMIT] and, for   *)
(* every bucket, the TOTAL counter equal to the sum of the other three.    *)
C9_TotalIsSumOfTypes ==
    ~seq.directTotal => \A s \in Snapshots : TotalIsSum(s)

C9_Witness ==
    /\ ~seq.directTotal
    /\ seq.ret # "-"
    /\ \E x \in Slots : slot[x].N[READ] >= 1 /\ slot[x].N[WRITE] >= 1

(* C10: in every snapshot, for each event type, the bucket counters add up *)
(* to N.                                                                   *)
C10_BucketsSumToN ==
    \A s \in Snapshots : \A e \in EventTypes : SumBuckets(s, e) = s.N[e]

C10_Witness ==
    /\ seq.last.op = "Combine"
    /\ seq.ret # "-"
    /\ agg.N[TOTAL] >= 2
    /\ Cardinality({i \in BucketIdx : agg.Buckets[TOTAL][i] > 0}) >= 2

\* the smallest and the largest element of a non-empty set of integers
MinOf(S) == CHOOSE x \in S : \A y \in S : x <= y

MaxOf(S) == CHOOSE x \in S : \A y \in S : y <= x

(* C11: under Record (durations >= 0) and Reset, for each event type: if   *)
(* N = 0 then Min = Max = 0, else Min is the smallest and Max the largest  *)
(* duration recorded for the type since the last Reset (for TOTAL: for any *)
(* type).                                                                  *)
C11_MinMaxOfRecorded ==
    \A e \in EventTypes :
       IF agg.N[e] = 0
       THEN fn.seen[e] = {} /\ agg.Min[e] = 0 /\ agg.Max[e] = 0
       ELSE /\ fn.seen[e] # {}
            /\ agg.Min[e] = MinOf(fn.seen[e])
            /\ agg.Max[e] = MaxOf(fn.seen[e])

C11_Witness ==
    /\ fn.resets >= 1
    /\ agg.N[READ] >= 2
    /\ Cardinality(fn.seen[READ]) >= 2
    /\ agg.N[WRITE] = 0
    /\ agg.Min[TOTAL] < agg.Min[READ]

(* C12: sp always refers to a or b; sp changes only at the Store of a Swap *)
(* and every such Store moves it to the other slot; whenever no Swap is in *)
(* progress, onA is true exactly when sp refers to a.                      *)
C12_OneActiveSlot ==
    /\ [](sp \in Slots /\ (~InSwap => (onA <=> sp = "a")))
    /\ [][/\ (sp' # sp) => coll.pc = "store"
          /\ (coll.pc = "store" /\ coll'.pc # "store") => sp' # sp]_vars

C12_Witness ==
    /\ con.returns >= 2
    /\ ~InSwap
    /\ sp = "a"
    /\ onA

\* the step is one whole Swap call
SwapStep == seq'.last.op = "Swap" /\ seq'.nops = seq.nops + 1

(* C13: the slot returned by the k-th Swap is not reset by that call, and   *)
(* it still holds its returned contents after the (k+1)-th Swap: no call    *)
(* up to and including the next Swap changes it.                            *)
C13_ReturnedSlotKeptTwoSwaps ==
    [][/\ SwapStep => slot'[seq'.ret] = slot[seq'.ret]
       /\ seq.ret # "-" => slot'[seq.ret] = slot[seq.ret]]_vars

(* C13, as the code has it: the slot returned by the k-th Swap is not reset *)
(* by that call and keeps its returned contents until the (k+1)-th Swap is  *)
(* called; the (k+1)-th Swap resets it and makes it the active slot.        *)
C13_ReturnedSlotKeptOneSwap ==
    [][/\ SwapStep => slot'[seq'.ret] = slot[seq'.ret]
       /\ (seq.ret # "-" /\ ~SwapStep) => slot'[seq.ret] = slot[seq.ret]
       /\ (seq.ret # "-" /\ SwapStep) =>
             /\ IsEmpty(slot'[seq.ret])
             /\ sp' = seq.ret
             /\ seq'.ret # seq.ret]_vars

C13_Witness ==
    /\ seq.nops = 3
    /\ seq.last.op = "Swap"
    /\ seq.prev.op = "Swap"
    /\ seq.retSum = 1
    /\ sp = seq.prevRet
    /\ IsEmpty(slot[seq.prevRet])

(* C14: from the return of a Swap to the collector's next Swap call, a step *)
(* of a Record or Error call that began after that Swap returned leaves the *)
(* returned slot as it is; what it changes is the active slot.              *)
C14_FreshCallsLeaveReturnedSlot ==
    [][(coll.ret # "-" /\ ~InSwap /\ prod.began = con.returns)
          => /\ slot'[coll.ret] = slot[coll.ret]
             /\ \A x \in Slots : slot'[x] # slot[x] => (x = sp /\ x # coll.ret)
      ]_vars

C14_Witness ==
    /\ coll.ret # "-"
    /\ ~InSwap
    /\ con.returns >= 1
    /\ prod.began = con.returns
    /\ prod.pc = "idle"
    /\ con.completed >= 1
    /\ slot[sp].N[TOTAL] >= 1
    /\ sp # coll.ret

\* the producer is inside a Record or Error call
InCall == prod.pc \notin {"idle", "stopped"}

\* the statements of Record and Error after the call
CallSteps ==
    \/ PLoad
    \/ PReadBucket
    \/ PWriteBucket
    \/ PMin
    \/ PMax
    \/ PReadN
    \/ PWriteN
    \/ PLoadErr
    \/ PErr

\* the statements of Swap after the call
SwapSteps == CResetType \/ CResetErrors \/ CStore \/ CFlipReturn

\* the number of steps the producer's call still has to take
CallRank ==
    LET block == CASE prod.pc = "rdb" -> 6
                   [] prod.pc = "wrb" -> 5
                   [] prod.pc = "min" -> 4
                   [] prod.pc = "max" -> 3
                   [] prod.pc = "rdn" -> 2
                   [] prod.pc = "wrn" -> 1
                   [] OTHER -> 0
    IN  CASE prod.pc = "load" -> 13
          [] prod.pc = "loaderr" -> 2
          [] prod.pc = "err" -> 1
          [] prod.pc \in {"idle", "stopped"} -> 0
          [] OTHER -> block + (IF prod.t # TOTAL THEN 6 ELSE 0)

\* the number of steps the collector's Swap still has to take
SwapRank ==
    CASE coll.pc = "reset" -> (nEventTypes - coll.i) + 3
      [] coll.pc = "reseterr" -> 3
      [] coll.pc = "store" -> 2
      [] coll.pc = "flip" -> 1
      [] OTHER -> 0

(* C15: Record, Error and Swap are wait-free.  Inside a call the caller's   *)
(* next statement can always be taken, whatever the other thread is doing   *)
(* or wherever it has stopped; every statement a caller takes brings its    *)
(* call strictly nearer to its return (at most 13 statements for Record, 2  *)
(* for Error, nEventTypes + 3 for Swap), and no step of the other thread    *)
(* sets it back.                                                            *)
C15_WaitFree ==
    /\ [](InCall => ENABLED CallSteps)
    /\ [](InSwap => ENABLED SwapSteps)
    /\ [][/\ InCall => (prod' = prod \/ CallRank' < CallRank)
          /\ InSwap => (coll' = coll \/ SwapRank' < SwapRank)]_vars

C15_Witness ==
    /\ prod.pc = "wrn"
    /\ prod.t = TOTAL
    /\ coll.pc = "store"
    /\ prod.ptr = sp

\* the step is one whole agg.Combine(c) call
CombineStep == seq'.last.op = "Combine" /\ seq'.nops = seq.nops + 1

(* C19: agg.Combine(c) leaves c (and the whole Trx) as it was and adds c    *)
(* into agg: every bucket and N grows by c's value, Max becomes the larger  *)
(* of the two, every code's tally grows by c's tally and every code of c    *)
(* is a key of agg afterwards; two Combine calls into an empty aggregate    *)
(* give N equal to the sum of the two sources' N.                           *)
C19_CombineAddsElementwise ==
    [][CombineStep =>
         LET c == slot[seq'.last.src]
         IN  /\ slot' = slot
             /\ \A i \in EventTypes :
                   /\ agg'.N[i] = agg.N[i] + c.N[i]
                   /\ \A j \in BucketIdx :
                         agg'.Buckets[i][j] = agg.Buckets[i][j] + c.Buckets[i][j]
                   /\ agg'.Max[i] = IF c.Max[i] > agg.Max[i] THEN c.Max[i]
                                    ELSE agg.Max[i]
             /\ \A k \in Codes : Tally(agg', k) = Tally(agg, k) + Tally(c, k)
             /\ DOMAIN c.Errors \subseteq DOMAIN agg'.Errors
             /\ (seq.last.op = "Combine" /\ IsEmpty(seq.pre)) =>
                   \A i \in EventTypes :
                      agg'.N[i] = slot[seq.last.src].N[i] + c.N[i]
      ]_vars

C19_Witness ==
    /\ seq.last.op = "Combine"
    /\ seq.prev.op = "Combine"
    /\ seq.last.src # seq.prev.src
    /\ slot["a"].N[TOTAL] >= 1
    /\ slot["b"].N[TOTAL] >= 1
    /\ agg.N[TOTAL] = slot["a"].N[TOTAL] + slot["b"].N[TOTAL]
    /\ agg.Max[TOTAL] >= slot["a"].Max[TOTAL]

(***************************************************************************)
(* SpecPct: Stats.Percentiles on one histogram.  The call reads            *)
(* s.Buckets[eventType] and s.N[eventType] only, so the Stats of this      *)
(* specification carries those two fields.  A histogram has observations   *)
(* in the buckets PctBuckets, which it reaches by Record or by Combine.    *)
(* A fraction is kept in tenths of a percent (999 is 99.9), and            *)
(* f >= p[j] is n * 1000 >= p[j] * N: for N up to 40 and these fractions   *)
(* the float64 expression float64(n) / float64(N) * 100 compares and       *)
(* truncates as the exact quotient does.                                   *)
(* A uint64 value v is kept as <<v \div 10^6, v % 10^6>> (seconds and      *)
(* microseconds): the boundaries of the buckets from 417 on are above      *)
(* 2^31.                                                                   *)
(***************************************************************************)
\* observations in one bucket of a histogram
MaxCount == 2

\* requested fractions in one call
MaxTargets == 2

PctBuckets == {0, 1, 50, 448, 449}

Fractions == {0, 500, 990, 999, 1000}

PctTypes == {READ, TOTAL}

\* Boundary[i + 1] is uint64(base * math.Pow(factor, float64(i)))
Boundary ==
    << 
<<0, 10>>, <<0, 10>>, <<0, 10>>, <<0, 11>>, <<0, 12>>,
       <<0, 12>>, <<0, 13>>, <<0, 13>>, <<0, 14>>, <<0, 15>>,
       <<0, 15>>, <<0, 16>>, <<0, 17>>, <<0, 18>>, <<0, 19>>,
       <<0, 19>>, <<0, 20>>, <<0, 21>>, <<0, 22>>, <<0, 23>>,
       <<0, 25>>, <<0, 26>>, <<0, 27>>, <<0, 28>>, <<0, 30>>,
       <<0, 31>>, <<0, 33>>, <<0, 34>>, <<0, 36>>, <<0, 38>>,
       <<0, 39>>, <<0, 41>>, <<0, 43>>, <<0, 45>>, <<0, 47>>,
       <<0, 50>>, <<0, 52>>, <<0, 54>>, <<0, 57>>, <<0, 60>>,
       <<0, 63>>, <<0, 66>>, <<0, 69>>, <<0, 72>>, <<0, 75>>,
       <<0, 79>>, <<0, 83>>, <<0, 87>>, <<0, 91>>, <<0, 95>>,
       <<0, 100>>, <<0, 104>>, <<0, 109>>, <<0, 114>>, <<0, 120>>,
       <<0, 125>>, <<0, 131>>, <<0, 138>>, <<0, 144>>, <<0, 151>>,
       <<0, 158>>, <<0, 165>>, <<0, 173>>, <<0, 181>>, <<0, 190>>,
       <<0, 199>>, <<0, 208>>, <<0, 218>>, <<0, 229>>, <<0, 239>>,
       <<0, 251>>, <<0, 263>>, <<0, 275>>, <<0, 288>>, <<0, 301>>,
       <<0, 316>>, <<0, 331>>, <<0, 346>>, <<0, 363>>, <<0, 380>>,
       <<0, 398>>, <<0, 416>>, <<0, 436>>, <<0, 457>>, <<0, 478>>,
       <<0, 501>>, <<0, 524>>, <<0, 549>>, <<0, 575>>, <<0, 602>>,
       <<0, 630>>, <<0, 660>>, <<0, 691>>, <<0, 724>>, <<0, 758>>,
       <<0, 794>>, <<0, 831>>, <<0, 870>>, <<0, 912>>, <<0, 954>>,
       <<0, 1000>>, <<0, 1047>>, <<0, 1096>>, <<0, 1148>>, <<0, 1202>>,
       <<0, 1258>>, <<0, 1318>>, <<0, 1380>>, <<0, 1445>>, <<0, 1513>>,
       <<0, 1584>>, <<0, 1659>>, <<0, 1737>>, <<0, 1819>>, <<0, 1905>>,
       <<0, 1995>>, <<0, 2089>>, <<0, 2187>>, <<0, 2290>>, <<0, 2398>>,
       <<0, 2511>>, <<0, 2630>>, <<0, 2754>>, <<0, 2884>>, <<0, 3019>>,
       <<0, 3162>>, <<0, 3311>>, <<0, 3467>>, <<0, 3630>>, <<0, 3801>>,
       <<0, 3981>>, <<0, 4168>>, <<0, 4365>>, <<0, 4570>>, <<0, 4786>>,
       <<0, 5011>>, <<0, 5248>>, <<0, 5495>>, <<0, 5754>>, <<0, 6025>>,
       <<0, 6309>>, <<0, 6606>>, <<0, 6918>>, <<0, 7244>>, <<0, 7585>>,
       <<0, 7943>>, <<0, 8317>>, <<0, 8709>>, <<0, 9120>>, <<0, 9549>>,
       <<0, 10000>>, <<0, 10471>>, <<0, 10964>>, <<0, 11481>>, <<0, 12022>>,
       <<0, 12589>>, <<0, 13182>>, <<0, 13803>>, <<0, 14454>>, <<0, 15135>>,
       <<0, 15848>>, <<0, 16595>>, <<0, 17378>>, <<0, 18197>>, <<0, 19054>>,
       <<0, 19952>>, <<0, 20892>>, <<0, 21877>>, <<0, 22908>>, <<0, 23988>>,
       <<0, 25118>>, <<0, 26302>>, <<0, 27542>>, <<0, 28840>>, <<0, 30199>>,
       <<0, 31622>>, <<0, 33113>>, <<0, 34673>>, <<0, 36307>>, <<0, 38018>>,
       <<0, 39810>>, <<0, 41686>>, <<0, 43651>>, <<0, 45708>>, <<0, 47863>>,
       <<0, 50118>>, <<0, 52480>>, <<0, 54954>>, <<0, 57543>>, <<0, 60255>>,
       <<0, 63095>>, <<0, 66069>>, <<0, 69183>>, <<0, 72443>>, <<0, 75857>>,
       <<0, 79432>>, <<0, 83176>>, <<0, 87096>>, <<0, 91201>>, <<0, 95499>>,
       <<0, 100000>>, <<0, 104712>>, <<0, 109647>>, <<0, 114815>>, <<0, 120226>>,
       <<0, 125892>>, <<0, 131825>>, <<0, 138038>>, <<0, 144543>>, <<0, 151356>>,
       <<0, 158489>>, <<0, 165958>>, <<0, 173780>>, <<0, 181970>>, <<0, 190546>>,
       <<0, 199526>>, <<0, 208929>>, <<0, 218776>>, <<0, 229086>>, <<0, 239883>>,
       <<0, 251188>>, <<0, 263026>>, <<0, 275422>>, <<0, 288403>>, <<0, 301995>>,
       <<0, 316227>>, <<0, 331131>>, <<0, 346736>>, <<0, 363078>>, <<0, 380189>>,
       <<0, 398107>>, <<0, 416869>>, <<0, 436515>>, <<0, 457088>>, <<0, 478630>>,
       <<0, 501187>>, <<0, 524807>>, <<0, 549540>>, <<0, 575439>>, <<0, 602559>>,
       <<0, 630957>>, <<0, 660693>>, <<0, 691830>>, <<0, 724435>>, <<0, 758577>>,
       <<0, 794328>>, <<0, 831763>>, <<0, 870963>>, <<0, 912010>>, <<0, 954992>>,
       <<1, 0>>, <<1, 47128>>, <<1, 96478>>, <<1, 148153>>, <<1, 202264>>,
       <<1, 258925>>, <<1, 318256>>, <<1, 380384>>, <<1, 445439>>, <<1, 513561>>,
       <<1, 584893>>, <<1, 659586>>, <<1, 737800>>, <<1, 819700>>, <<1, 905460>>,
       <<1, 995262>>, <<2, 89296>>, <<2, 187761>>, <<2, 290867>>, <<2, 398832>>,
       <<2, 511886>>, <<2, 630267>>, <<2, 754228>>, <<2, 884031>>, <<3, 19951>>,
       <<3, 162277>>, <<3, 311311>>, <<3, 467368>>, <<3, 630780>>, <<3, 801893>>,
       <<3, 981071>>, <<4, 168693>>, <<4, 365158>>, <<4, 570881>>, <<4, 786300>>,
       <<5, 11872>>, <<5, 248074>>, <<5, 495408>>, <<5, 754399>>, <<6, 25595>>,
       <<6, 309573>>, <<6, 606934>>, <<6, 918309>>, <<7, 244359>>, <<7, 585775>>,
       <<7, 943282>>, <<8, 317637>>, <<8, 709635>>, <<9, 120108>>, <<9, 549925>>,
       <<10, 0>>, <<10, 471285>>, <<10, 964781>>, <<11, 481536>>, <<12, 22644>>,
       <<12, 589254>>, <<13, 182567>>, <<13, 803842>>, <<14, 454397>>, <<15, 135612>>,
       <<15, 848931>>, <<16, 595869>>, <<17, 378008>>, <<18, 197008>>, <<19, 54607>>,
       <<19, 952623>>, <<20, 892961>>, <<21, 877616>>, <<22, 908676>>, <<23, 988329>>,
       <<25, 118864>>, <<26, 302679>>, <<27, 542287>>, <<28, 840315>>, <<30, 199517>>,
       <<31, 622776>>, <<33, 113112>>, <<34, 673685>>, <<36, 307805>>, <<38, 18939>>,
       <<39, 810717>>, <<41, 686938>>, <<43, 651583>>, <<45, 708818>>, <<47, 863009>>,
       <<50, 118723>>, <<52, 480746>>, <<54, 954087>>, <<57, 543993>>, <<60, 255958>>,
       <<63, 95734>>, <<66, 69344>>, <<69, 183097>>, <<72, 443596>>, <<75, 857757>>,
       <<79, 432823>>, <<83, 176377>>, <<87, 96358>>, <<91, 201083>>, <<95, 499258>>,
       <<100, 0>>, <<104, 712854>>, <<109, 647819>>, <<114, 815362>>, <<120, 226443>>,
       <<125, 892541>>, <<131, 825673>>, <<138, 38426>>, <<144, 543977>>, <<151, 356124>>,
       <<158, 489319>>, <<165, 958690>>, <<173, 780082>>, <<181, 970085>>, <<190, 546071>>,
       <<199, 526231>>, <<208, 929613>>, <<218, 776162>>, <<229, 86765>>, <<239, 883291>>,
       <<251, 188643>>, <<263, 26799>>, <<275, 422870>>, <<288, 403150>>, <<301, 995172>>,
       <<316, 227766>>, <<331, 131121>>, <<346, 736850>>, <<363, 78054>>, <<380, 189396>>,
       <<398, 107170>>, <<416, 869383>>, <<436, 515832>>, <<457, 88189>>, <<478, 630092>>,
       <<501, 187233>>, <<524, 807460>>, <<549, 540873>>, <<575, 439937>>, <<602, 559586>>,
       <<630, 957344>>, <<660, 693448>>, <<691, 830970>>, <<724, 435960>>, <<758, 577575>>,
       <<794, 328234>>, <<831, 763771>>, <<870, 963589>>, <<912, 10839>>, <<954, 992586>>,
       <<1000, 0>>, <<1047, 128548>>, <<1096, 478196>>, <<1148, 153621>>, <<1202, 264434>>,
       <<1258, 925411>>, <<1318, 256738>>, <<1380, 384264>>, <<1445, 439770>>, <<1513, 561248>>,
       <<1584, 893192>>, <<1659, 586907>>, <<1737, 800828>>, <<1819, 700858>>, <<1905, 460717>>,
       <<1995, 262314>>, <<2089, 296130>>, <<2187, 761623>>, <<2290, 867652>>, <<2398, 832919>>,
       <<2511, 886431>>, <<2630, 267991>>, <<2754, 228703>>, <<2884, 31503>>, <<3019, 951720>>,
       <<3162, 277660>>, <<3311, 311214>>, <<3467, 368504>>, <<3630, 780547>>, <<3801, 893963>>,
       <<3981, 71705>>, <<4168, 693834>>, <<4365, 158322>>, <<4570, 881896>>, <<4786, 300923>>,
       <<5011, 872336>>, <<5248, 74602>>, <<5495, 408738>>, <<5754, 399373>>, <<6025, 595860>>,
       <<6309, 573444>>, <<6606, 934480>>, <<6918, 309709>>, <<7244, 359600>>, <<7585, 775750>>,
       <<7943, 282347>>, <<8317, 637711>>, <<8709, 635899>>, <<9120, 108393>>, <<9549, 925860>> >>

Value(i) == Boundary[i + 1]

\* (x + y) / 2 in uint64
Midpoint(x, y) ==
    LET h == x[1] + y[1]
        l == ((h % 2) * 1000000 + x[2] + y[2]) \div 2
    IN  << (h \div 2) + (l \div 1000000), l % 1000000 >>

\* x <= y in uint64
Leq(x, y) == x[1] < y[1] \/ (x[1] = y[1] /\ x[2] <= y[2])

\* s.Buckets[eventType][i]
Count(s, eventType, i) ==
    IF i \in DOMAIN s.Buckets[eventType] THEN s.Buckets[eventType][i] ELSE 0

\* one round of the loop of Percentiles, for bucket i: st.n is the running
\* count, st.j the target (from 1), st.q the values found so far, st.brk
\* holds once the loop was left by break
PctBody(s, eventType, p, st, i) ==
    LET n2 == st.n + Count(s, eventType, i)
        N == s.N[eventType]
        j == st.j
        intP == p[j] \div 10
        intF == (n2 * 100) \div N
        v == IF intP # intF /\ i > 0
             THEN Midpoint(Value(i), Value(i - 1))
             ELSE IF i = 0 THEN Value(0) ELSE Value(i)
    IN  IF st.brk THEN st
        ELSE IF n2 * 1000 >= p[j] * N
             THEN [n |-> n2, j |-> IF j = Len(p) THEN j ELSE j + 1,
                   q |-> [st.q EXCEPT ![j] = v], brk |-> j = Len(p)]
             ELSE [st EXCEPT !.n = n2]

\* the rounds for the buckets lo .. hi - 1, in order
RECURSIVE PctLoop(_, _, _, _, _, _)
PctLoop(s, eventType, p, st, lo, hi) ==
    IF hi - lo = 1 THEN PctBody(s, eventType, p, st, lo)
    ELSE LET mid == (lo + hi) \div 2
             st2 == PctLoop(s, eventType, p, st, lo, mid)
         IN  IF st2.brk THEN st2
             ELSE PctLoop(s, eventType, p, st2, mid, hi)

\* s.Percentiles(eventType, p)
Percentiles(s, eventType, p) ==
    IF Len(p) = 0 THEN << >>
    ELSE PctLoop(s, eventType, p,
                 [n |-> 0, j |-> 1, q |-> [k \in 1 .. Len(p) |-> <<0, 0>>],
                  brk |-> FALSE],
                 0, n_buckets).q

\* the histograms: up to MaxCount observations in each bucket of PctBuckets
Histograms ==
    {h \in [PctBuckets -> 0 .. MaxCount] : \E i \in PctBuckets : h[i] > 0}

\* the Stats that has the observations of h under eventType, and so
\* under TOTAL
HistStats(h, eventType) ==
    [Buckets |-> [t \in EventTypes |->
                    IF t \in {eventType, TOTAL} THEN h
                    ELSE [i \in PctBuckets |-> 0]],
     N |-> [t \in EventTypes |->
              IF t \in {eventType, TOTAL} THEN SumOver(h, PctBuckets) ELSE 0]]

\* the lists of requested fractions
TargetLists == UNION {[1 .. k -> Fractions] : k \in 1 .. MaxTargets}

InitPct ==
    /\ Trx0
    /\ \E h \in Histograms, e \in PctTypes, p \in TargetLists :
          fn = [op |-> "pct", s |-> HistStats(h, e), eventType |-> e,
                p |-> p, q |-> << >>, done |-> FALSE]

\* q = s.Percentiles(eventType, p)
PctCall ==
    /\ ~fn.done
    /\ fn' = [fn EXCEPT !.q = Percentiles(fn.s, fn.eventType, fn.p),
                        !.done = TRUE]
    /\ UNCHANGED <<trx, agg, threads, seq>>

NextPct == PctCall

SpecPct == InitPct /\ [][NextPct]_vars

\* the observations of s for eventType in the buckets 0 .. i
CumCount(s, eventType, i) ==
    SumOver(s.Buckets[eventType], {b \in DOMAIN s.Buckets[eventType] : b <= i})

\* the first bucket at which the cumulative fraction reaches the target pj;
\* the cumulative fraction changes only at a bucket that has observations,
\* and bucket 0 already reaches the target 0
FirstReached(s, eventType, pj) ==
    LET reached(i) == CumCount(s, eventType, i) * 1000 >= pj * s.N[eventType]
        cand == {i \in DOMAIN s.Buckets[eventType] \cup {0} : reached(i)}
    IN  CHOOSE i \in cand : \A m \in cand : i <= m

(* C16: Percentiles is monotone: whenever fraction i is at most fraction j  *)
(* of the request, the value returned for i is at most the value returned  *)
(* for j.                                                                  *)
C16_PercentilesMonotone ==
    fn.done =>
       \A i, j \in 1 .. Len(fn.p) :
          fn.p[i] <= fn.p[j] => Leq(fn.q[i], fn.q[j])

(* C20: for a non-decreasing request, each value Percentiles returns is   *)
(* within the bucket at which the cumulative fraction first reaches its    *)
(* target: at most that bucket's upper boundary and at least the previous  *)
(* bucket's upper boundary.                                                *)
C20_ValueWithinReachedBucket ==
    (fn.done /\ \A j \in 1 .. (Len(fn.p) - 1) : fn.p[j] <= fn.p[j + 1]) =>
       \A j \in 1 .. Len(fn.p) :
          LET b == FirstReached(fn.s, fn.eventType, fn.p[j])
          IN  /\ Leq(fn.q[j], Value(b))
              /\ b > 0 => Leq(Value(b - 1), fn.q[j])

(***************************************************************************)
(* SpecBucket: the bucket index Stats.Record computes for one duration.    *)
(***************************************************************************)
\* the durations of SpecBucket: every value up to past the first decade
\* boundary, the values around the next boundaries, and the largest value
\* the model's integers hold
IndexDurations ==
    (1 .. 130) \cup {999, 1000, 1001, 9999, 10000, 10001, 2147483647}

\* TableLow[i] is the smallest whole duration in the range the table of
\* bucket boundaries gives for bucket i (rows 1 to 417; the ranges of the
\* later rows start above 2^31)
TableLow ==
    << 
10, 11, 11, 12, 13, 13, 14, 14, 15, 16,
       16, 17, 18, 19, 20, 20, 21, 22, 23, 24,
       26, 27, 28, 29, 31, 32, 34, 35, 37, 39,
       40, 42, 44, 46, 48, 51, 53, 55, 58, 61,
       64, 67, 70, 73, 76, 80, 84, 88, 92, 96,
       100, 105, 110, 115, 121, 126, 132, 139, 145, 152,
       159, 166, 174, 182, 191, 200, 209, 219, 230, 240,
       252, 264, 276, 289, 302, 317, 332, 347, 364, 381,
       399, 417, 437, 458, 479, 502, 525, 550, 576, 603,
       631, 661, 692, 725, 759, 795, 832, 871, 913, 955,
       1000, 1048, 1097, 1149, 1203, 1259, 1319, 1381, 1446, 1514,
       1585, 1660, 1738, 1820, 1906, 1996, 2090, 2188, 2291, 2399,
       2512, 2631, 2755, 2885, 3020, 3163, 3312, 3468, 3631, 3802,
       3982, 4169, 4366, 4571, 4787, 5012, 5249, 5496, 5755, 6026,
       6310, 6607, 6919, 7245, 7586, 7944, 8318, 8710, 9121, 9550,
       10000, 10472, 10965, 11482, 12023, 12590, 13183, 13804, 14455, 15136,
       15849, 16596, 17379, 18198, 19055, 19953, 20893, 21878, 22909, 23989,
       25119, 26303, 27543, 28841, 30200, 31623, 33114, 34674, 36308, 38019,
       39811, 41687, 43652, 45709, 47864, 50119, 52481, 54955, 57544, 60256,
       63096, 66070, 69184, 72444, 75858, 79433, 83177, 87097, 91202, 95500,
       100000, 104713, 109648, 114816, 120227, 125893, 131826, 138039, 144544, 151357,
       158490, 165959, 173781, 181971, 190547, 199527, 208930, 218777, 229087, 239884,
       251189, 263027, 275423, 288404, 301996, 316228, 331132, 346737, 363079, 380190,
       398108, 416870, 436516, 457089, 478631, 501188, 524808, 549541, 575440, 602560,
       630958, 660694, 691831, 724436, 758578, 794329, 831764, 870964, 912011, 954993,
       1000000, 1047129, 1096479, 1148154, 1202265, 1258926, 1318257, 1380385, 1445440, 1513562,
       1584894, 1659587, 1737801, 1819701, 1905461, 1995263, 2089297, 2187762, 2290868, 2398833,
       2511887, 2630268, 2754229, 2884032, 3019952, 3162278, 3311312, 3467369, 3630781, 3801894,
       3981072, 4168694, 4365159, 4570882, 4786301, 5011873, 5248075, 5495409, 5754400, 6025596,
       6309574, 6606935, 6918310, 7244360, 7585776, 7943283, 8317638, 8709636, 9120109, 9549926,
       10000000, 10471286, 10964782, 11481537, 12022645, 12589255, 13182568, 13803843, 14454398, 15135613,
       15848932, 16595870, 17378009, 18197009, 19054608, 19952624, 20892962, 21877617, 22908677, 23988330,
       25118865, 26302680, 27542288, 28840316, 30199518, 31622777, 33113113, 34673686, 36307806, 38018940,
       39810718, 41686939, 43651584, 45708819, 47863010, 50118724, 52480747, 54954088, 57543994, 60255959,
       63095735, 66069345, 69183098, 72443597, 75857758, 79432824, 83176378, 87096359, 91201084, 95499259,
       100000001, 104712855, 109647820, 114815363, 120226444, 125892542, 131825674, 138038427, 144543978, 151356125,
       158489320, 165958691, 173780083, 181970086, 190546072, 199526232, 208929614, 218776163, 229086766, 239883292,
       251188644, 263026800, 275422871, 288403151, 301995173, 316227767, 331131122, 346736851, 363078055, 380189397,
       398107171, 416869384, 436515833, 457088190, 478630093, 501187234, 524807461, 549540874, 575439938, 602559587,
       630957345, 660693449, 691830971, 724435961, 758577576, 794328235, 831763772, 870963590, 912010840, 954992587,
       1000000001, 1047128549, 1096478197, 1148153622, 1202264435, 1258925412, 1318256739, 1380384265, 1445439771, 1513561249,
       1584893193, 1659586908, 1737800829, 1819700859, 1905460718, 1995262315, 2089296131 >>

\* the table's range for bucket n contains d
InTableRange(n, d) ==
    IF n = 0 THEN d < base
    ELSE /\ n <= Len(TableLow)
         /\ TableLow[n] <= d
         /\ n < Len(TableLow) => d < TableLow[n + 1]

InitBucket ==
    /\ Trx0
    /\ \E d \in IndexDurations : fn = [op |-> "bucket", d |-> d, n |-> 0,
                                         done |-> FALSE]

\* the first statements of s.Record(eventType, d): n for d
BucketCall ==
    /\ ~fn.done
    /\ fn' = [fn EXCEPT !.n = BucketOf(fn.d), !.done = TRUE]
    /\ UNCHANGED <<trx, agg, threads, seq>>

NextBucket == BucketCall

SpecBucket == InitBucket /\ [][NextBucket]_vars

(* C17: for a duration d > 0 Record uses a bucket index in 0 .. 449 whose   *)
(* range contains d: 0 when d < 10, and otherwise the bucket whose range    *)
(* in the table of boundaries holds d, so that a duration on a boundary     *)
(* (100, 1000, ...) is in the bucket that starts there.                     *)
C17_BucketContainsDuration ==
    (fn.done /\ fn.d > 0) =>
       /\ fn.n \in 0 .. (n_buckets - 1)
       /\ InTableRange(fn.n, fn.d)

(***************************************************************************)
(* SpecParse: ParsePercentiles on one input text.  A text is a sequence    *)
(* of characters.  strings.TrimSpace, strings.Split, strings.TrimLeft and  *)
(* strconv.ParseFloat are library code; they are modelled from their       *)
(* documented behaviour: ParseFloat accepts decimal and hexadecimal        *)
(* floating-point numbers in Go syntax, "NaN" without a sign, and "Inf" /  *)
(* "Infinity" with an optional sign, ignoring case.  A float64 is kept as  *)
(* its kind (num, nan, inf), its sign and, for num, its value in           *)
(* thousandths, which is exact for the texts of the model.                 *)
(***************************************************************************)
\* comma-separated tokens in one input text
MaxTokens == 2

\* the tokens a text is made of
Tokens ==
    {
     <<"9", "5">>,
     <<"p", "9", "9", ".", "9">>,
     <<" ", "P", "5", "0", " ">>,
     <<"1", "0", "0">>,
     <<"0">>,
     <<"1", "0", "5">>,
     <<"-", "1">>,
     <<"a", "b", "c">>,
     <<"n", "a", "n">>,
     <<"N", "a", "N">>,
     <<"p", "n", "a", "n">>,
     <<"i", "n", "f">>,
     <<"-", "I", "n", "f">>,
     <<"1", "e", "2">>,
     <<"1", "e", "3">>,
     << >>,
     <<" ">>,
     <<"p", "P", "5">>,
     <<"5", "p">>,
     <<"0", "x", "1", "p", "4">>,
     <<"0", "x", "1", "0">>,
     <<"1", "0", "0", ".", "0", "0", "1">>,
     <<"-", "0">>,
     <<"+", "5">>,
     <<".", "5">>,
     <<"5", ".">>,
     <<".">>,
     <<"9", " ", "5">>,
     <<"+", "n", "a", "n">>,
     <<"1", "e">> }

RECURSIVE Join(_)
Join(ts) ==
    IF Len(ts) = 1 THEN ts[1] ELSE ts[1] \o <<",">> \o Join(Tail(ts))

\* the input texts: the blank ones and the lists of up to MaxTokens tokens
ParseInputs ==
    {<< >>, <<" ", " ">>}
       \cup {Join(ts) : ts \in UNION {[1 .. k -> Tokens] : k \in 1 .. MaxTokens}}

DigitChars == <<"0", "1", "2", "3", "4", "5", "6", "7", "8", "9">>

IsDigit(c) == \E i \in 1 .. 10 : DigitChars[i] = c

DigitVal(c) == (CHOOSE i \in 1 .. 10 : DigitChars[i] = c) - 1

UpperChars == <<"A", "E", "F", "I", "N", "P", "T", "X", "Y">>

LowerChars == <<"a", "e", "f", "i", "n", "p", "t", "x", "y">>

Lower(c) ==
    IF \E i \in 1 .. Len(UpperChars) : UpperChars[i] = c
    THEN LowerChars[CHOOSE i \in 1 .. Len(UpperChars) : UpperChars[i] = c]
    ELSE c

LowerAll(s) == [i \in 1 .. Len(s) |-> Lower(s[i])]

RECURSIVE Pow(_, _)
Pow(b, k) == IF k <= 0 THEN 1 ELSE b * Pow(b, k - 1)

\* strings.TrimSpace
RECURSIVE TrimSpace(_)
TrimSpace(s) ==
    IF s = << >> THEN s
    ELSE IF Head(s) = " " THEN TrimSpace(Tail(s))
    ELSE IF s[Len(s)] = " " THEN TrimSpace(SubSeq(s, 1, Len(s) - 1))
    ELSE s

\* strings.TrimLeft(s, cutset)
RECURSIVE TrimLeft(_, _)
TrimLeft(s, cutset) ==
    IF s # << >> /\ Head(s) \in cutset THEN TrimLeft(Tail(s), cutset) ELSE s

\* strings.Split(s, ","): the text before the first comma, then the rest
RECURSIVE Split(_)
Split(s) ==
    IF \A i \in 1 .. Len(s) : s[i] # "," THEN <<s>>
    ELSE LET k == CHOOSE i \in 1 .. Len(s) :
                     s[i] = "," /\ \A m \in 1 .. (i - 1) : s[m] # ","
         IN  <<SubSeq(s, 1, k - 1)>> \o Split(SubSeq(s, k + 1, Len(s)))

NoFloat == [ok |-> FALSE, kind |-> "num", neg |-> FALSE, milli |-> 0]

\* the mantissa and exponent of a number text from position i on; hex says
\* the digits are hexadecimal with a binary exponent after p
RECURSIVE ReadNumber(_, _, _, _)
ReadNumber(s, i, hex, st) ==
    IF i > Len(s) THEN st
    ELSE LET c == Lower(s[i])
             digit == IsDigit(c) \/ (hex /\ c \in {"a", "b", "c", "d", "e", "f"})
             val == IF IsDigit(c) THEN DigitVal(c)
                    ELSE CASE c = "a" -> 10 [] c = "b" -> 11 [] c = "c" -> 12
                           [] c = "d" -> 13 [] c = "e" -> 14 [] OTHER -> 15
             radix == IF hex THEN 16 ELSE 10
             expChar == IF hex THEN "p" ELSE "e"
         IN  IF st.phase = "mant" /\ digit
             THEN ReadNumber(s, i + 1, hex,
                     [st EXCEPT !.mant = @ * radix + val, !.nd = @ + 1,
                                !.frac = IF st.dot THEN @ + 1 ELSE @])
             ELSE IF st.phase = "mant" /\ c = "." /\ ~st.dot
             THEN ReadNumber(s, i + 1, hex, [st EXCEPT !.dot = TRUE])
             ELSE IF st.phase = "mant" /\ c = expChar /\ st.nd > 0
             THEN ReadNumber(s, i + 1, hex, [st EXCEPT !.phase = "sign"])
             ELSE IF st.phase = "sign" /\ c \in {"+", "-"}
             THEN ReadNumber(s, i + 1, hex,
                     [st EXCEPT !.phase = "exp", !.eneg = c = "-"])
             ELSE IF st.phase \in {"sign", "exp"} /\ IsDigit(c)
             THEN ReadNumber(s, i + 1, hex,
                     [st EXCEPT !.phase = "exp", !.exp = @ * 10 + DigitVal(c),
                                !.ed = @ + 1])
             ELSE [st EXCEPT !.bad = TRUE]

\* the float64 of a signed decimal (or, with hex, hexadecimal) number text
NumberValue(s, hex) ==
    LET signed == s # << >> /\ s[1] \in {"+", "-"}
        neg == signed /\ s[1] = "-"
        body == IF signed THEN Tail(s) ELSE s
        prefixed == Len(body) >= 2 /\ body[1] = "0" /\ Lower(body[2]) = "x"
        digits == IF hex THEN SubSeq(body, 3, Len(body)) ELSE body
        st == ReadNumber(digits, 1, hex,
                 [phase |-> "mant", mant |-> 0, nd |-> 0, frac |-> 0,
                  dot |-> FALSE, eneg |-> FALSE, exp |-> 0, ed |-> 0,
                  bad |-> FALSE])
        e == IF st.eneg THEN 0 - st.exp ELSE st.exp
        ok == /\ hex => prefixed
              /\ ~st.bad
              /\ st.nd > 0
              /\ IF hex THEN st.phase = "exp" /\ st.ed > 0
                 ELSE st.phase = "mant" \/ (st.phase = "exp" /\ st.ed > 0)
        milli == IF hex
                 THEN (st.mant * 1000 * Pow(2, e)) \div (Pow(16, st.frac) * Pow(2, 0 - e))
                 ELSE (st.mant * Pow(10, 3 + e - st.frac)) \div Pow(10, st.frac - 3 - e)
    IN  IF ok THEN [ok |-> TRUE, kind |-> "num", neg |-> neg, milli |-> milli]
        ELSE NoFloat

\* strconv.ParseFloat(s, 64), err == nil being ok
ParseFloat(s) ==
    LET low == LowerAll(s)
        signed == s # << >> /\ s[1] \in {"+", "-"}
        body == IF signed THEN Tail(low) ELSE low
    IN  IF low = <<"n", "a", "n">>
        THEN [ok |-> TRUE, kind |-> "nan", neg |-> FALSE, milli |-> 0]
        ELSE IF body = <<"i", "n", "f">>
                \/ body = <<"i", "n", "f", "i", "n", "i", "t", "y">>
        THEN [ok |-> TRUE, kind |-> "inf", neg |-> signed /\ s[1] = "-",
              milli |-> 0]
        ELSE IF Len(body) >= 2 /\ body[1] = "0" /\ body[2] = "x"
        THEN NumberValue(s, TRUE)
        ELSE NumberValue(s, FALSE)

\* f < 0.0 || f > 100.0
OutOfRange(f) ==
    CASE f.kind = "nan" -> FALSE
      [] f.kind = "inf" -> TRUE
      [] OTHER -> (f.neg /\ f.milli > 0) \/ (~f.neg /\ f.milli > 100000)

\* return nil, nil, err
Failed(err) ==
    [err |-> err, isNil |-> TRUE, isDefault |-> FALSE,
     names |-> << >>, fractions |-> << >>]

\* the loop of ParsePercentiles from token k on
RECURSIVE ParseFrom(_, _, _, _)
ParseFrom(all, k, s, p) ==
    IF k > Len(all)
    THEN [err |-> "nil", isNil |-> FALSE, isDefault |-> FALSE,
          names |-> s, fractions |-> p]
    ELSE LET pStr == TrimLeft(TrimSpace(all[k]), {"P", "p"})
             f == ParseFloat(pStr)
         IN  IF ~f.ok THEN Failed("invalid percentile")
             ELSE IF OutOfRange(f) THEN Failed("percentile out of range")
             ELSE ParseFrom(all, k + 1, Append(s, <<"P">> \o pStr),
                            Append(p, f))

\* ParsePercentiles(pCSV)
ParsePercentiles(pCSV) ==
    IF TrimSpace(pCSV) = << >>
    THEN [err |-> "nil", isNil |-> FALSE, isDefault |-> TRUE,
          names |-> << >>, fractions |-> << >>]
    ELSE ParseFrom(Split(pCSV), 1, << >>, << >>)

InitParse ==
    /\ Trx0
    /\ \E pCSV \in ParseInputs :
          fn = [op |-> "parse", pCSV |-> pCSV, res |-> Failed("-"),
                done |-> FALSE]

\* names, fractions, err := ParsePercentiles(pCSV)
ParseCall ==
    /\ ~fn.done
    /\ fn' = [fn EXCEPT !.res = ParsePercentiles(fn.pCSV), !.done = TRUE]
    /\ UNCHANGED <<trx, agg, threads, seq>>

NextParse == ParseCall

SpecParse == InitParse /\ [][NextParse]_vars

\* the tokens of a text, each without surrounding blanks and P/p prefix
TokensOf(pCSV) ==
    LET all == Split(pCSV)
    IN  [k \in 1 .. Len(all) |-> TrimLeft(TrimSpace(all[k]), {"P", "p"})]

\* the token is a decimal number with a value in [0, 100]
DecimalInRange(tok) ==
    LET f == NumberValue(tok, FALSE)
    IN  f.ok /\ ~OutOfRange(f)

(* C18: for a non-blank text, if some token is not a decimal number in      *)
(* [0, 100] then ParsePercentiles returns an error with nil names and nil   *)
(* fractions; the error is nil only when every token is a decimal number   *)
(* in [0, 100].                                                            *)
C18_BadTokenIsError ==
    (fn.done /\ TrimSpace(fn.pCSV) # << >>) =>
       LET toks == TokensOf(fn.pCSV)
           allGood == \A k \in 1 .. Len(toks) : DecimalInRange(toks[k])
       IN  /\ ~allGood => (fn.res.err # "nil" /\ fn.res.isNil)
           /\ fn.res.err = "nil" => allGood

\* the number a token denotes: a decimal number, or a hexadecimal one
\* after 0x
NumericValue(tok) ==
    LET body == IF tok # << >> /\ tok[1] \in {"+", "-"} THEN Tail(tok) ELSE tok
    IN  NumberValue(tok, Len(body) >= 2 /\ body[1] = "0" /\ Lower(body[2]) = "x")

(* C24: on success with a non-blank text of k tokens, ParsePercentiles     *)
(* returns k names and k fractions in the order of the text: names[i] is   *)
(* P followed by token i without surrounding blanks and P/p prefix, and    *)
(* fractions[i] is the number that token denotes.                          *)
C24_NamesAndFractionsInOrder ==
    (fn.done /\ TrimSpace(fn.pCSV) # << >> /\ fn.res.err = "nil") =>
       LET toks == TokensOf(fn.pCSV)
       IN  /\ Len(fn.res.names) = Len(toks)
           /\ Len(fn.res.fractions) = Len(toks)
           /\ \A i \in 1 .. Len(toks) :
                 LET v == NumericValue(toks[i])
                     f == fn.res.fractions[i]
                 IN  /\ fn.res.names[i] = <<"P">> \o toks[i]
                     /\ v.ok
                     /\ f.kind = "num"
                     /\ f.neg = v.neg
                     /\ f.milli = v.milli

(***************************************************************************)
(* SpecErr: one Trx driven by whole Error, Record and Swap calls, with     *)
(* the number of Error calls per code kept beside it.                      *)
(***************************************************************************)
NoTally == [k \in Codes |-> 0]

InitErr ==
    /\ Trx0
    /\ fn = [op |-> "err", n |-> 0, swaps |-> 0, ret |-> "-",
             calls |-> NoTally, since |-> NoTally, atSwap |-> NoTally,
             retSum |-> NoTally]

\* t.Error(n)
ErrError(n) ==
    /\ fn.n < MaxOps
    /\ slot' = [slot EXCEPT ![sp] = ErrorInc(@, n)]
    /\ fn' = [fn EXCEPT !.n = @ + 1, !.calls[n] = @ + 1, !.since[n] = @ + 1]
    /\ UNCHANGED <<sp, onA, agg, threads, seq>>

\* t.Record(eventType, d)
ErrRecord(eventType, d) ==
    /\ fn.n < MaxOps
    /\ slot' = [slot EXCEPT ![sp] = StatsRecord(@, eventType, d)]
    /\ fn' = [fn EXCEPT !.n = @ + 1]
    /\ UNCHANGED <<sp, onA, agg, threads, seq>>

\* t.Swap()
ErrSwap ==
    /\ fn.n < MaxOps
    /\ slot' = [slot EXCEPT ![SwapIdle(onA)] = StatsReset(@)]
    /\ sp' = SwapIdle(onA)
    /\ onA' = ~onA
    /\ fn' = [fn EXCEPT !.n = @ + 1, !.swaps = @ + 1, !.ret = SwapReturn(onA),
                        !.atSwap = fn.since, !.since = NoTally,
                        !.retSum = [k \in Codes |->
                                      @[k] + Tally(slot[SwapReturn(onA)], k)]]
    /\ UNCHANGED <<agg, threads, seq>>

NextErr ==
    \/ \E n \in Codes : ErrError(n)
    \/ ErrRecord(READ, 20)
    \/ ErrSwap

SpecErr == InitErr /\ [][NextErr]_vars

(* C21: in a run of whole calls, the snapshot a Swap returns has, for       *)
(* every code, a tally equal to the number of Error calls of that code      *)
(* since the previous Swap (0 or no key if there was none), and the         *)
(* tallies of all returned snapshots add up to the number of Error calls    *)
(* made before the last Swap.                                               *)
C21_ErrorsSinceLastSwap ==
    fn.ret # "-" =>
       \A k \in Codes :
          /\ Tally(slot[fn.ret], k) = fn.atSwap[k]
          /\ fn.retSum[k] = fn.calls[k] - fn.since[k]

C21_Witness ==
    /\ fn.swaps >= 3
    /\ fn.ret = "a"
    /\ \E k \in Codes :
          /\ fn.calls[k] > fn.atSwap[k]
          /\ k \in DOMAIN slot[fn.ret].Errors
          /\ fn.since[k] = 0
    /\ \E k \in Codes : fn.atSwap[k] >= 1

(***************************************************************************)
(* SpecCall: one Stats (agg) under whole Record, Error-increment and Reset *)
(* calls, the arguments of the last Record kept in fn.last.                *)
(***************************************************************************)
InitCall ==
    /\ Trx0
    /\ fn = [op |-> "call", n |-> 0, last |-> << >>]

\* agg.Record(eventType, d)
CallRecord(eventType, d) ==
    /\ fn.n < MaxOps
    /\ agg' = StatsRecord(agg, eventType, d)
    /\ fn' = [fn EXCEPT !.n = @ + 1, !.last = <<eventType, d>>]
    /\ UNCHANGED <<trx, threads, seq>>

\* agg.Errors[n] += 1
CallError(n) ==
    /\ fn.n < MaxOps
    /\ agg' = ErrorInc(agg, n)
    /\ fn' = [fn EXCEPT !.n = @ + 1, !.last = << >>]
    /\ UNCHANGED <<trx, threads, seq>>

\* agg.Reset()
CallReset ==
    /\ fn.n < MaxOps
    /\ agg' = StatsReset(agg)
    /\ fn' = [fn EXCEPT !.n = @ + 1, !.last = << >>]
    /\ UNCHANGED <<trx, threads, seq>>

NextCall ==
    \/ \E e \in EventTypes, d \in RecDurations : CallRecord(e, d)
    \/ \E n \in Codes : CallError(n)
    \/ CallReset

SpecCall == InitCall /\ [][NextCall]_vars

\* the step is one whole agg.Record call
RecordStep == fn'.last # << >> /\ fn'.n = fn.n + 1

(* C22: one Record(eventType, d) adds 1 to one bucket and to N of           *)
(* eventType and 1 to the bucket of the same index and to N of TOTAL (1,    *)
(* not 2, when eventType is TOTAL); every other bucket, the N, Min and Max  *)
(* of every other event type and the error tallies stay as they were.       *)
C22_RecordCountsOnce ==
    [][RecordStep =>
         LET e == fn'.last[1]
             hit(t) == t = e \/ t = TOTAL
         IN  /\ \E n \in BucketIdx :
                   \A t \in EventTypes, j \in BucketIdx :
                      agg'.Buckets[t][j] =
                         agg.Buckets[t][j] + (IF hit(t) /\ j = n THEN 1 ELSE 0)
             /\ \A t \in EventTypes :
                   /\ agg'.N[t] = agg.N[t] + (IF hit(t) THEN 1 ELSE 0)
                   /\ ~hit(t) => (agg'.Min[t] = agg.Min[t]
                                    /\ agg'.Max[t] = agg.Max[t])
             /\ agg'.Errors = agg.Errors
      ]_vars

C22_Witness ==
    /\ fn.op = "call"
    /\ fn.last # << >>
    /\ fn.last[1] = TOTAL
    /\ agg.N[TOTAL] = agg.N[READ] + 1
    /\ agg.N[READ] >= 1
    /\ DOMAIN agg.Errors # {}

(***************************************************************************)
(* SpecAlias: the three Stats (the two of a Trx and an aggregate) as       *)
(* objects whose fields refer to storage.  NewStats allocates the slices   *)
(* and the map of each Stats; a field of a Stats is ref[o][p], the cell    *)
(* it refers to, and heap[c] is what the cell holds.  Record, Error,       *)
(* Reset, Copy and Combine assign elements of the slices and of the map,   *)
(* so they write into the cells the Stats refers to.  The four slices of   *)
(* Buckets are one cell.                                                   *)
(***************************************************************************)
Objs == {"a", "b", "agg"}

Parts == {"Buckets", "Min", "Max", "N", "Errors"}

Cells == Objs \X Parts

\* the Stats that object o is, read through its references
View(heap, ref, o) == [p \in Parts |-> heap[ref[o][p]]]

\* the heap after the elements of o were assigned the values of v
Store(heap, ref, o, v) ==
    [c \in Cells |->
       IF \E p \in Parts : ref[o][p] = c
       THEN v[CHOOSE p \in Parts : ref[o][p] = c]
       ELSE heap[c]]

\* mutant: Copy and Combine take over the Errors map of c
SharedErrors(ref, s, c) == [ref EXCEPT ![s]["Errors"] = ref[c]["Errors"]]

\* Copy and Combine assign elements only: s keeps its own slices and map
OwnStorage(ref, s, c) == ref

InitAlias ==
    /\ Trx0
    /\ fn = [op |-> "alias", n |-> 0,
             heap |-> [c \in Cells |-> NewStats[c[2]]],
             ref |-> [o \in Objs |-> [p \in Parts |-> <<o, p>>]],
             has |-> FALSE, snap |-> NewStats, src |-> "-", later |-> 0]

\* the history after one more call on the Trx
AfterTrxCall(heap) ==
    [fn EXCEPT !.n = @ + 1, !.heap = heap,
               !.later = IF fn.has THEN @ + 1 ELSE @]

\* the history after agg.Copy(c) or agg.Combine(c)
AfterSnapshot(heap, ref, c) ==
    [fn EXCEPT !.n = @ + 1, !.heap = heap, !.ref = ref, !.has = TRUE,
               !.snap = View(heap, ref, "agg"), !.src = c, !.later = 0]

\* t.Record(eventType, d)
AliasRecord(eventType, d) ==
    /\ fn.n < MaxOps
    /\ fn' = AfterTrxCall(Store(fn.heap, fn.ref, sp,
                StatsRecord(View(fn.heap, fn.ref, sp), eventType, d)))
    /\ UNCHANGED <<trx, agg, threads, seq>>

\* t.Error(n)
AliasError(n) ==
    /\ fn.n < MaxOps
    /\ fn' = AfterTrxCall(Store(fn.heap, fn.ref, sp,
                ErrorInc(View(fn.heap, fn.ref, sp), n)))
    /\ UNCHANGED <<trx, agg, threads, seq>>

\* t.Swap()
AliasSwap ==
    /\ fn.n < MaxOps
    /\ fn' = AfterTrxCall(Store(fn.heap, fn.ref, SwapIdle(onA),
                StatsReset(View(fn.heap, fn.ref, SwapIdle(onA)))))
    /\ sp' = SwapIdle(onA)
    /\ onA' = ~onA
    /\ UNCHANGED <<slot, agg, threads, seq>>

\* agg.Copy(c), c one of the Stats of the Trx
AliasCopy(c) ==
    /\ fn.n < MaxOps
    /\ LET ref == OwnStorage(fn.ref, "agg", c)
       IN  fn' = AfterSnapshot(
                    Store(fn.heap, ref, "agg",
                          StatsCopy(View(fn.heap, fn.ref, "agg"),
                                    View(fn.heap, fn.ref, c))),
                    ref, c)
    /\ UNCHANGED <<trx, agg, threads, seq>>

\* agg.Combine(c), c one of the Stats of the Trx
AliasCombine(c) ==
    /\ fn.n < MaxOps
    /\ LET ref == OwnStorage(fn.ref, "agg", c)
       IN  fn' = AfterSnapshot(
                    Store(fn.heap, ref, "agg",
                          StatsCombine(View(fn.heap, fn.ref, "agg"),
                                       View(fn.heap, fn.ref, c))),
                    ref, c)
    /\ UNCHANGED <<trx, agg, threads, seq>>

NextAlias ==
    \/ \E d \in Durations \ {5} : AliasRecord(READ, d)
    \/ \E n \in Codes : AliasError(n)
    \/ AliasSwap
    \/ \E c \in Slots : AliasCopy(c)
    \/ \E c \in Slots : AliasCombine(c)

SpecAlias == InitAlias /\ [][NextAlias]_vars

(* C23: after agg.Copy(c) or agg.Combine(c), later Record, Error and Swap   *)
(* calls on the Trx (Swap resetting and reactivating c) change no bucket,   *)
(* Min, Max, N or error tally of agg.                                       *)
C23_SnapshotIndependent ==
    fn.has => View(fn.heap, fn.ref, "agg") = fn.snap

C23_Witness ==
    /\ fn.op = "alias"
    /\ fn.has
    /\ fn.src = "a"
    /\ fn.later >= 3
    /\ sp = "a"
    /\ fn.snap.N[TOTAL] >= 1
    /\ View(fn.heap, fn.ref, "a").N[TOTAL] >= 1
    /\ View(fn.heap, fn.ref, "a") # fn.snap

====
